---- MODULE Spec2Model ----
(***************************************************************************)
(* Deck-to-video rendering pipeline of src/utils/video_converter.py and    *)
(* the /convert-video route of src/routes.py that calls it.                *)
(*                                                                         *)
(* Times are in milliseconds (2 s = 2000, 0.5 s = 500).  A clip is a       *)
(* record [layers, duration, fx]: the ordered layers composited into it,   *)
(* its duration, and the effects wrapped around it.  An exception is a     *)
(* record [type, msg, cause].                                              *)
(***************************************************************************)
EXTENDS Integers, Sequences, FiniteSets, TLC

VARIABLES
    pc,         \* position of the run inside convert / convert_to_video
    deck,       \* the input deck file: [parsable, slides]
    outFile,    \* the file at output_path: [exists, size]
    outFile0,   \* history: the file at output_path when the run started
    rmFailed,   \* history: os.remove of the except clause raised
    i,          \* slide loop counter of convert_pptx_to_video (1-based)
    clip,       \* local `clip` of the slide loop
    clips,      \* local `clips` of convert_pptx_to_video
    clipSlide,  \* history: the slide index during which clips[k] was appended
    final_clip, \* local `final_clip` of convert_pptx_to_video
    encoded,    \* history: number of times write_videofile was invoked
    collected,  \* history: the slides after whose processing gc.collect ran
    closed,     \* history: [final, clips]: final_clip and the clips closed
    exc,        \* the exception being propagated
    ret,        \* outcome of convert_to_video
    response,   \* response of the /convert-video route
    fxIn,       \* transition harness: the call's arguments
    fxOut,      \* transition harness: the call's outcome
    fxFrame,    \* transition harness: a frame of the returned clip
    slideIn,    \* slide harness: the call's arguments
    slideOut,   \* slide harness: the call's outcome
    geomIn,     \* geometry harness: the deck size and a shape's geometry
    geomOut,    \* geometry harness: the pixel geometry of each branch
    fontCall,   \* a call of get_font_color: the run and the colour returned
    genRun,     \* a run of create_presentation: animation files and pictures
    animRun,    \* a call of create_animations_for_content
    routeCall   \* a request to /convert-video up to the call of the converter

vars == <<pc, deck, outFile, outFile0, rmFailed, i, clip, clips, clipSlide,
          final_clip, encoded, collected, closed, exc, ret, response, fxIn,
          fxOut, fxFrame, slideIn, slideOut, geomIn, geomOut, fontCall,
          genRun, animRun, routeCall>>

pipelineVars == <<pc, deck, outFile, outFile0, rmFailed, i, clip, clips,
                  clipSlide, final_clip, encoded, collected, closed, exc, ret,
                  response>>

fxVars == <<fxIn, fxOut, fxFrame>>

slideVars == <<slideIn, slideOut>>

geomVars == <<geomIn, geomOut>>

harnessVars == <<fxVars, slideVars, geomVars, fontCall, genRun, animRun, routeCall>>

----------------------------------------------------------------------------
(* Bounds *)

MaxSlides == 4

MaxShapes == 3

----------------------------------------------------------------------------
(* Program constants *)

width == 1920

height == 1080

duration == 2000

transition_duration == 500

total_duration == duration + transition_duration

MinVideoSize == 1000

transitions == <<"fade", "slide_left", "slide_right", "zoom">>

----------------------------------------------------------------------------
(* Values *)

Max(S) == CHOOSE x \in S : \A y \in S : y <= x

Min(S) == CHOOSE x \in S : \A y \in S : x <= y

\* int(a / b) for b > 0: the quotient, truncated toward zero
TruncDiv(a, b) == IF a >= 0 THEN a \div b ELSE -((-a) \div b)

NoExc == [type |-> "none", msg |-> "", cause |-> ""]

Exc(t, m) == [type |-> t, msg |-> m, cause |-> ""]

Absent == [exists |-> FALSE, size |-> 0]

File(n) == [exists |-> TRUE, size |-> n]

\* sizes an output file can have: around the minimum size check
FileSizes == {MinVideoSize - 1, MinVideoSize}

FileStates == {Absent} \cup {File(n) : n \in FileSizes}

NoClip == [layers |-> <<>>, duration |-> 0, fx |-> <<>>]

Layer(part, k, d) == [part |-> part, shape |-> k, duration |-> d]

\* ImageClip(frame).set_duration(d)
ImageClip(part, k, d) == [layers |-> <<Layer(part, k, d)>>, duration |-> d, fx |-> <<>>]

\* CompositeVideoClip(clips): the layers in list order, lasting as long as
\* the longest of them
CompositeVideoClip(ls) ==
    [layers |-> ls,
     duration |-> Max({ls[k].duration : k \in 1..Len(ls)}),
     fx |-> <<>>]

----------------------------------------------------------------------------
(* get_font_color *)

\* A run is [color, rgb]: what its font colour is given as, "none" (no
\* colour), "rgb" (an explicit RGB value), "theme" (a theme colour) or
\* "preset" (a named colour), and the RGB value when it is "rgb".

ColorKinds == {"none", "rgb", "theme", "preset"}

\* run.font.color.type: a member of MSO_COLOR_TYPE (RGB = 1, SCHEME = 2,
\* PRESET = 102), None for a font without colour; <<>> stands for None
ColorType(kind) ==
    CASE kind = "rgb" -> <<1>>
      [] kind = "theme" -> <<2>>
      [] kind = "preset" -> <<102>>
      [] OTHER -> <<>>

\* MSO_THEME_COLOR_INDEX.NOT_THEME_COLOR
NOT_THEME_COLOR == <<0>>

Black == <<0, 0, 0, 255>>

\* lines 28-29: the test that lets the run's own colour through
IsOwnColor(run) == ColorType(run.color) = NOT_THEME_COLOR

\* lines 23-35; reading .rgb of a colour that is not an RGB colour raises
\* AttributeError, which the except clause turns into the default
get_font_color(run) ==
    IF IsOwnColor(run) /\ run.color = "rgb"
    THEN [raised |-> FALSE, color |-> run.rgb \o <<255>>]
    ELSE [raised |-> FALSE, color |-> Black]

----------------------------------------------------------------------------
(* pptx_generator.py: the animation picture of a content slide *)

\* An animation file is [magic, size]: what its first bytes are, "GIF8",
\* "PNG" or "junk" (no image format), and its size in bytes.
Magics == {"GIF8", "PNG", "junk"}

MinAnimationSize == 100

AnimationSizes == {50, MinAnimationSize - 1, MinAnimationSize, 5000}

AnimationFiles == [magic : Magics, size : AnimationSizes]

NoAnimation == [magic |-> "none", size |-> 0]

\* pptx_generator.py lines 55-105: the checks of add_animation_to_slide,
\* which no code calls: TRUE when it adds the picture
add_animation_to_slide(file) ==
    /\ file # NoAnimation
    /\ file.magic = "GIF8"
    /\ file.size >= MinAnimationSize

\* slide.shapes.add_picture(file, ...): the library reads the image header
\* and raises on a file that is no image
add_picture(pictures, file) ==
    IF file.magic = "junk" THEN [raised |-> TRUE, pictures |-> pictures]
    ELSE [raised |-> FALSE, pictures |-> Append(pictures, file)]

\* pptx_generator.py lines 294-302: the provided animation of the section
AddProvided(pictures, file) ==
    IF file # NoAnimation THEN add_picture(pictures, file)
    ELSE [raised |-> FALSE, pictures |-> pictures]

\* pptx_generator.py lines 383-405: the animation generated for the section;
\* an exception of add_picture is logged
AddGenerated(pictures, file) == add_picture(pictures, file).pictures

----------------------------------------------------------------------------
(* apply_transition_effect *)

TransitionKinds == {transitions[k] : k \in 1..Len(transitions)}

\* number of library calls the branch of a transition kind makes:
\* fade: fadein, fadeout; slide_*: ColorClip, set_duration, set_position,
\* CompositeVideoClip; zoom: resize
TransitionCalls(transition_type) ==
    CASE transition_type = "fade" -> 2
      [] transition_type \in {"slide_left", "slide_right"} -> 4
      [] transition_type = "zoom" -> 1
      [] OTHER -> 0

\* mask = ColorClip(clip.size, col=(0, 0, 0)).set_duration(clip.duration)
MaskMutDuration(c, d) == Layer("backdrop", 0, d)

Mask(c, d) == Layer("backdrop", 0, c.duration)

\* the value the branch assigns to `clip` when all its calls return
TransitionResult(c, transition_type, d) ==
    CASE transition_type = "fade" ->
            [c EXCEPT !.fx = Append(Append(@, "fadein"), "fadeout")]
      [] transition_type \in {"slide_left", "slide_right"} ->
            [CompositeVideoClip(<<Mask(c, d)>> \o c.layers)
                EXCEPT !.fx = Append(c.fx, transition_type)]
      [] transition_type = "zoom" ->
            [c EXCEPT !.fx = Append(@, "zoom")]
      [] OTHER -> c

\* the local `clip` after n calls of the branch have returned: every branch
\* assigns it once, by its last statement
LocalClipMutPartial(c, transition_type, d, n) ==
    IF n >= TransitionCalls(transition_type)
    THEN TransitionResult(c, transition_type, d)
    ELSE IF transition_type = "fade" /\ n = 1
         THEN [c EXCEPT !.fx = Append(@, "fadein")]
         ELSE c

LocalClip(c, transition_type, d, n) ==
    IF n >= TransitionCalls(transition_type)
    THEN TransitionResult(c, transition_type, d)
    ELSE c

\* fault: the call of the branch that raises, 0 when none does.  The except
\* clause returns the local `clip` as it is when the exception arrives.
apply_transition_effect(c, transition_type, d, fault) ==
    LET thrown == fault \in 1..TransitionCalls(transition_type)
        done == IF thrown THEN fault - 1 ELSE TransitionCalls(transition_type)
    IN  [raised |-> FALSE, clip |-> LocalClip(c, transition_type, d, done)]

\* line 100: lambda t: (max(0, int(w * (t / duration - 1))), 0), its x
slide_left_position(w, t, d) == Max({0, TruncDiv(w * (t - d), d)})

\* line 108: lambda t: (min(0, int(w * (1 - t / duration))), 0), its x
slide_right_position(w, t, d) == Min({0, TruncDiv(w * (d - t), d)})

\* line 112: lambda t: 1 + 0.1 * t / duration, in thousandths
zoom_scale(t, d) == 1000 + (100 * t) \div d

HasFx(c, f) == \E k \in 1..Len(c.fx) : c.fx[k] = f

\* where the slide content of clip c stands at time t, and how it is scaled:
\* the functions of t the transition attached to the clip, (0, 0) and 100%
\* for a clip that carries none
PositionAt(c, t, w, d) ==
    IF HasFx(c, "slide_left") THEN <<slide_left_position(w, t, d), 0>>
    ELSE IF HasFx(c, "slide_right") THEN <<slide_right_position(w, t, d), 0>>
    ELSE <<0, 0>>

ScaleAt(c, t, d) == IF HasFx(c, "zoom") THEN zoom_scale(t, d) ELSE 1000

----------------------------------------------------------------------------
(* create_slide_clip *)

\* A slide is [bg, layoutBg, masterBg, shapes].  bg, layoutBg and masterBg
\* are the types of the background fill of the slide, of its layout and of
\* the layout's master:
\*   "none" (no background set at that level), "solid", "solid_scheme" (a
\*   solid fill whose colour has no rgb), "gradient", "picture", "badpicture"
\*   (undecodable bytes), "pattern".
\* A shape is [fill, content, bad]:
\*   fill: "absent" (no fill attribute), "none", "solid", "solid_scheme"
\*         (a solid fill whose fore_color has no rgb: reading it raises);
\*   content: "text" (has a text frame), "picture", "gif", "table", "other";
\*   bad: processing the content raises (undecodable picture bytes, a table
\*        without rows, geometry that is None).

BgKinds == {"none", "solid", "solid_scheme", "gradient", "picture",
            "badpicture", "pattern"}

ShapeFills == {"absent", "none", "solid", "solid_scheme"}

ShapeContents == {"text", "picture", "gif", "table", "other"}

None == [type |-> "None", level |-> "none"]

\* `x.background.fill` of a slide, a layout or a master: the library hands
\* out a fill object at every level, also where no background is set (its
\* type is then not one of SOLID, GRADIENT, PICTURE)
BackgroundFill(kind, level) == [type |-> kind, level |-> level]

\* lines 125-147: `if not background_fill` tests the fill object itself, so
\* a level is passed over only when it handed out no object
ResolvedFill(slide) ==
    LET own == BackgroundFill(slide.bg, "slide")
        layout == BackgroundFill(slide.layoutBg, "layout")
        master == BackgroundFill(slide.masterBg, "master")
    IN  IF own # None THEN own
        ELSE IF layout # None THEN layout
        ELSE master

\* lines 427-448: the image create_pattern_background returns, which no
\* code calls
create_pattern_background == "checkerboard"

\* lines 149-189: the image of a fill, by its type
FillImage(kind) ==
    CASE kind = "solid" -> "solid"
      [] kind = "picture" -> "picture"
      [] OTHER -> "white"

\* the background image of lines 124-189, or the exception that leaves the
\* try block before background_clip is bound
BackgroundImage(slide) ==
    LET background_fill == ResolvedFill(slide)
    IN  IF background_fill = None THEN [raised |-> FALSE, image |-> "white"]
        ELSE IF background_fill.type = "gradient"
             THEN [raised |-> TRUE, image |-> "none"]
             ELSE [raised |-> FALSE, image |-> FillImage(background_fill.type)]

\* A shape's geometry is [attrs, unset, left, top, width, height]: the
\* geometry attributes the object has, those of them whose value is None (a
\* shape without its own transform), and the values of the others in native
\* units.  A deck size is [w, h] in the same units.  The native unit is 120
\* EMU, the largest unit in which the deck sizes and the numbers 1920 and
\* 1080 are whole: 635 units are 6 pt, 76200 units are 720 pt.
GeomAttrs == {"left", "top", "width", "height"}

EmuPerUnit == 120

\* arguments <<v, total, out>> for which (v / total) * out, computed in
\* double precision, falls just below the integer it is exactly equal to, so
\* that int() yields one less in magnitude; worked out for the values of
\* GeomValues over GeomDecks
FloatShort ==
    {<<26035, 101600, 1920>>, <<-26035, 101600, 1920>>,
     <<8255, 57150, 1080>>, <<16510, 57150, 1080>>}

\* int((v / total) * out) of lines 220-223, 268-269, 303-306, 342-345
EmuToPx(v, total, out) ==
    LET q == TruncDiv(v * out, total)
    IN  IF <<v, total, out>> \in FloatShort
        THEN IF v >= 0 THEN q - 1 ELSE q + 1
        ELSE q

\* `shape.a if hasattr(shape, 'a') else default`
AttrOr(shape, a, default) == IF a \in shape.attrs THEN shape[a] ELSE default

\* an operand of the divisions that convert the attributes `used` is None:
\* TypeError
GeometryRaises(shape, used) == \E a \in used : a \in shape.unset

\* lines 211-223: the rectangle of a solid fill; a missing size defaults to
\* the pixel numbers `width` and `height`, taken as EMU
FillGeometry(shape, slide_width_emus, slide_height_emus, w, h) ==
    LET left == AttrOr(shape, "left", 0)
        top == AttrOr(shape, "top", 0)
        shape_width == AttrOr(shape, "width", w \div EmuPerUnit)
        shape_height == AttrOr(shape, "height", h \div EmuPerUnit)
    IN  [x |-> EmuToPx(left, slide_width_emus, w),
         y |-> EmuToPx(top, slide_height_emus, h),
         w |-> EmuToPx(shape_width, slide_width_emus, w),
         h |-> EmuToPx(shape_height, slide_height_emus, h)]

\* lines 264-269: where a text run is drawn
TextGeometry(shape, slide_width_emus, slide_height_emus, w, h) ==
    LET left == AttrOr(shape, "left", 0)
        top == AttrOr(shape, "top", 0)
    IN  [x |-> EmuToPx(left, slide_width_emus, w),
         y |-> EmuToPx(top, slide_height_emus, h)]

\* lines 295-306: position and frame size of an animated picture
GifGeometryMutSwapped(shape, slide_width_emus, slide_height_emus, w, h) ==
    LET left == AttrOr(shape, "left", 0)
        top == AttrOr(shape, "top", 0)
        shape_width == AttrOr(shape, "width", slide_width_emus \div 2)
        shape_height == AttrOr(shape, "height", slide_height_emus \div 2)
    IN  [x |-> EmuToPx(left, slide_width_emus, w),
         y |-> EmuToPx(top, slide_height_emus, h),
         w |-> EmuToPx(shape_width, slide_width_emus, w),
         h |-> EmuToPx(shape_height, slide_width_emus, w)]

GifGeometry(shape, slide_width_emus, slide_height_emus, w, h) ==
    LET left == AttrOr(shape, "left", 0)
        top == AttrOr(shape, "top", 0)
        shape_width == AttrOr(shape, "width", slide_width_emus \div 2)
        shape_height == AttrOr(shape, "height", slide_height_emus \div 2)
    IN  [x |-> EmuToPx(left, slide_width_emus, w),
         y |-> EmuToPx(top, slide_height_emus, h),
         w |-> EmuToPx(shape_width, slide_width_emus, w),
         h |-> EmuToPx(shape_height, slide_height_emus, h)]

\* lines 334-346: position and size of a static picture
PictureGeometry(shape, slide_width_emus, slide_height_emus, w, h) ==
    LET left == AttrOr(shape, "left", 0)
        top == AttrOr(shape, "top", 0)
        shape_width == AttrOr(shape, "width", slide_width_emus \div 2)
        shape_height == AttrOr(shape, "height", slide_height_emus \div 2)
    IN  [x |-> EmuToPx(left, slide_width_emus, w),
         y |-> EmuToPx(top, slide_height_emus, h),
         w |-> EmuToPx(shape_width, slide_width_emus, w),
         h |-> EmuToPx(shape_height, slide_height_emus, h)]

\* lines 203-234: the solid fill of a shape
FillStep(ls, shape, k, d) ==
    CASE shape.fill = "solid" ->
            [raised |-> FALSE, clips |-> Append(ls, Layer("fill", k, d))]
      [] shape.fill = "solid_scheme" -> [raised |-> TRUE, clips |-> ls]
      [] OTHER -> [raised |-> FALSE, clips |-> ls]

\* lines 237-409: the text frame, picture or table of a shape
ContentStepMutBottom(ls, shape, k, d) ==
    IF shape.content = "other" THEN [raised |-> FALSE, clips |-> ls]
    ELSE IF shape.bad THEN [raised |-> TRUE, clips |-> ls]
    ELSE [raised |-> FALSE,
          clips |-> <<ls[1], Layer(shape.content, k, d)>> \o Tail(ls)]

ContentStep(ls, shape, k, d) ==
    IF shape.content = "other" THEN [raised |-> FALSE, clips |-> ls]
    ELSE IF shape.bad THEN [raised |-> TRUE, clips |-> ls]
    ELSE [raised |-> FALSE, clips |-> Append(ls, Layer(shape.content, k, d))]

\* lines 202-414: one iteration of the shape loop; an exception ends the
\* iteration and keeps `clips` as it is
ProcessShapeMutAbort(ls, shape, k, d) ==
    LET f == FillStep(ls, shape, k, d)
        c == ContentStep(f.clips, shape, k, d)
    IN  IF f.raised \/ c.raised THEN <<ls[1]>> ELSE c.clips

ProcessShape(ls, shape, k, d) ==
    LET f == FillStep(ls, shape, k, d)
    IN  IF f.raised THEN f.clips ELSE ContentStep(f.clips, shape, k, d).clips

\* lines 197-414: the shape loop from shape k on
RECURSIVE ShapeLoop(_, _, _, _)
ShapeLoop(ls, shapes, k, d) ==
    IF k > Len(shapes) THEN ls
    ELSE ShapeLoop(ProcessShape(ls, shapes[k], k, d), shapes, k + 1, d)

\* compFault: CompositeVideoClip raises
create_slide_clip(slide, w, h, d, compFault) ==
    LET bg == BackgroundImage(slide)
        background_clip == ImageClip(bg.image, 0, d)
        ls == ShapeLoop(background_clip.layers, slide.shapes, 1, d)
    IN  IF bg.raised THEN [raised |-> TRUE, clip |-> NoClip]
        ELSE IF Len(ls) > 1
             THEN IF compFault THEN [raised |-> FALSE, clip |-> background_clip]
                  ELSE [raised |-> FALSE, clip |-> CompositeVideoClip(ls)]
             ELSE [raised |-> FALSE, clip |-> background_clip]

----------------------------------------------------------------------------
(* convert_pptx_to_video and convert_to_video *)

\* the except clause of convert_pptx_to_video: every exception leaves as a
\* RuntimeError carrying the message of the original one
Wrap(e) == [type |-> "RuntimeError",
            msg |-> "Failed to convert PPTX to video",
            cause |-> e.msg]

RECURSIVE SumDurations(_)
SumDurations(cs) ==
    IF cs = <<>> THEN 0 ELSE Head(cs).duration + SumDurations(Tail(cs))

\* concatenate_videoclips(clips, method="compose")
concatenate_videoclips(cs) == [clips |-> cs, duration |-> SumDurations(cs)]

NoFinal == [clips |-> <<>>, duration |-> 0]

\* transitions[i % len(transitions)], the list being 0-based
TransitionOfMutZeroBased(n) == transitions[((n - 1) % Len(transitions)) + 1]

TransitionOf(n) == transitions[(n % Len(transitions)) + 1]

\* lines 501-503: the blank white frame held for transition_duration
FallbackClip == ImageClip("white", 0, transition_duration)

\* lines 497-503: what the except clause of the slide loop does to `clips`
AfterFallbackMutDrop(cs) == cs

AfterFallback(cs) == Append(cs, FallbackClip)

\* the slides the pipeline is run on: a slide without shapes, a slide with a
\* filled text box, an undecodable picture and a table, and a slide whose
\* background is a gradient
PlainSlide ==
    [bg |-> "solid", layoutBg |-> "none", masterBg |-> "none", shapes |-> <<>>]

MixedSlide ==
    [bg |-> "none",
     layoutBg |-> "none",
     masterBg |-> "none",
     shapes |-> << [fill |-> "solid", content |-> "text", bad |-> FALSE],
                   [fill |-> "none", content |-> "picture", bad |-> TRUE],
                   [fill |-> "none", content |-> "table", bad |-> FALSE] >>]

GradientSlide ==
    [bg |-> "gradient", layoutBg |-> "none", masterBg |-> "none", shapes |-> <<>>]

SlideCatalog == {PlainSlide, MixedSlide, GradientSlide}

SeqsUpTo(S, n) == UNION {[1..m -> S] : m \in 0..n}

Decks == {[parsable |-> FALSE, slides |-> <<>>]}
         \cup {[parsable |-> TRUE, slides |-> ss] : ss \in SeqsUpTo(SlideCatalog, MaxSlides)}

NothingClosed == [final |-> FALSE, clips |-> 0]

FxIdleIn == [clip |-> NoClip, kind |-> "none", fault |-> 0]

FxIdleOut == [called |-> FALSE, raised |-> FALSE, clip |-> NoClip]

NoFrame == [rendered |-> FALSE, t |-> 0, pos |-> <<0, 0>>, scale |-> 1000]

SlideIdleIn == [slide |-> PlainSlide, compFault |-> FALSE]

SlideIdleOut == [called |-> FALSE, raised |-> FALSE, clip |-> NoClip]

GeomIdleIn ==
    [deck |-> [w |-> 76200, h |-> 57150],
     shape |-> [attrs |-> {}, unset |-> {}, left |-> 0, top |-> 0,
                width |-> 0, height |-> 0]]

NoBox == [x |-> 0, y |-> 0, w |-> 0, h |-> 0]

NoPoint == [x |-> 0, y |-> 0]

GeomIdleOut ==
    [called |-> FALSE, raised |-> {}, fill |-> NoBox, text |-> NoPoint,
     gif |-> NoBox, picture |-> NoBox]

FontIdleCall ==
    [run |-> [color |-> "none", rgb |-> <<0, 0, 0>>], called |-> FALSE,
     raised |-> FALSE, color |-> Black]

GenIdleRun ==
    [pc |-> "idle", provided |-> NoAnimation, pictures |-> <<>>,
     raised |-> FALSE]

AnimIdleRun ==
    [pc |-> "idle", sections |-> <<>>, k |-> 0, animations |-> <<>>,
     temp_files |-> <<>>, disk |-> {}, failed |-> FALSE, ret |-> <<>>]

RouteIdleCall ==
    [pc |-> "idle", json |-> FALSE, path |-> <<>>, exists |-> FALSE,
     large |-> FALSE, status |-> 0, error |-> "", converted |-> FALSE]

FxIdle ==
    /\ fxIn = FxIdleIn
    /\ fxOut = FxIdleOut
    /\ fxFrame = NoFrame

SlideIdle ==
    /\ slideIn = SlideIdleIn
    /\ slideOut = SlideIdleOut

GeomIdle ==
    /\ geomIn = GeomIdleIn
    /\ geomOut = GeomIdleOut

FontIdle == fontCall = FontIdleCall

GenIdle == genRun = GenIdleRun

AnimIdle == animRun = AnimIdleRun

RouteIdle == routeCall = RouteIdleCall

HarnessIdle ==
    FxIdle /\ SlideIdle /\ GeomIdle /\ FontIdle /\ GenIdle /\ AnimIdle /\ RouteIdle

PipelineIdle ==
    /\ pc = "idle"
    /\ deck = [parsable |-> FALSE, slides |-> <<>>]
    /\ outFile = Absent
    /\ outFile0 = Absent
    /\ rmFailed = FALSE
    /\ i = 0
    /\ clip = NoClip
    /\ clips = <<>>
    /\ clipSlide = <<>>
    /\ final_clip = NoFinal
    /\ encoded = 0
    /\ collected = {}
    /\ closed = NothingClosed
    /\ exc = NoExc
    /\ ret = "pending"
    /\ response = [status |-> 0, video_path |-> FALSE, error |-> ""]

\* the call convert_to_video(pptx_path, video_path) of routes.py:192
Init ==
    /\ pc = "start"
    /\ deck \in Decks
    /\ outFile \in {Absent, File(MinVideoSize)}
    /\ outFile0 = outFile
    /\ rmFailed = FALSE
    /\ i = 0
    /\ clip = NoClip
    /\ clips = <<>>
    /\ clipSlide = <<>>
    /\ final_clip = NoFinal
    /\ encoded = 0
    /\ collected = {}
    /\ closed = NothingClosed
    /\ exc = NoExc
    /\ ret = "pending"
    /\ response = [status |-> 0, video_path |-> FALSE, error |-> ""]
    /\ HarnessIdle

\* lines 546-548
CheckImagemagick ==
    /\ pc = "start"
    /\ \E ok \in BOOLEAN :
        IF ok THEN pc' = "verify" /\ exc' = exc
        ELSE /\ pc' = "except"
             /\ exc' = Exc("RuntimeError", "ImageMagick is not properly configured")
    /\ UNCHANGED <<deck, outFile0, outFile, i, clip, clips, clipSlide, final_clip, encoded,
                   ret, response>>
    /\ UNCHANGED <<harnessVars, rmFailed, collected, closed>>

\* lines 550-559
VerifyInput ==
    /\ pc = "verify"
    /\ \E ok \in BOOLEAN :
        IF ok THEN pc' = "load" /\ exc' = exc
        ELSE /\ pc' = "except"
             /\ exc' = Exc("ValueError", "Invalid PPTX file format")
    /\ UNCHANGED <<deck, outFile0, outFile, i, clip, clips, clipSlide, final_clip, encoded,
                   ret, response>>
    /\ UNCHANGED <<harnessVars, rmFailed, collected, closed>>

\* line 454: Presentation(pptx_path) returns
ParsesMutAlways(d) == TRUE

Parses(d) == d.parsable

\* lines 452-469
LoadPresentation ==
    /\ pc = "load"
    /\ IF Parses(deck)
       THEN pc' = "loop" /\ exc' = exc
       ELSE pc' = "except" /\ exc' = Wrap(Exc("PackageNotFoundError", "Package not found"))
    /\ i' = 0
    /\ clips' = <<>>
    /\ UNCHANGED <<deck, outFile0, outFile, clip, clipSlide, final_clip, encoded, ret, response>>
    /\ UNCHANGED <<harnessVars, rmFailed, collected, closed>>

\* line 470: the for loop has a slide left after n slides
SlidesLeftMutStopEarly(n, slides) == n < Len(slides) /\ n < 1

SlidesLeft(n, slides) == n < Len(slides)

\* lines 470-481: the next slide is taken and create_slide_clip is called
RenderSlide ==
    /\ pc = "loop"
    /\ SlidesLeft(i, deck.slides)
    /\ i' = i + 1
    /\ \E compFault \in BOOLEAN :
        LET r == create_slide_clip(deck.slides[i + 1], width, height,
                                   total_duration, compFault)
        IN  IF r.raised
            THEN pc' = "fallback" /\ clip' = NoClip
            ELSE pc' = "transition" /\ clip' = r.clip
    /\ UNCHANGED <<deck, outFile0, outFile, clips, clipSlide, final_clip, encoded, exc, ret,
                   response>>
    /\ UNCHANGED <<harnessVars, rmFailed, collected, closed>>

\* line 491: clips.append(clip)
AfterRenderedMutFront(cs, c) == <<c>> \o cs

AfterRendered(cs, c) == Append(cs, c)

\* lines 483-495
ApplyTransition ==
    /\ pc = "transition"
    /\ \E fault \in 0..TransitionCalls(TransitionOf(i)) :
        LET r == apply_transition_effect(clip, TransitionOf(i),
                                         transition_duration, fault)
        IN  IF r.raised
            THEN /\ pc' = "fallback"
                 /\ UNCHANGED <<clip, clips, clipSlide, collected>>
            ELSE /\ pc' = "loop"
                 /\ clip' = r.clip
                 /\ clips' = AfterRendered(clips, r.clip)
                 /\ clipSlide' = Append(clipSlide, i)
                 /\ collected' = collected \cup {i}
    /\ UNCHANGED <<deck, outFile0, outFile, i, final_clip, encoded, exc, ret, response>>
    /\ UNCHANGED <<harnessVars, rmFailed, closed>>

\* lines 497-503
Fallback ==
    /\ pc = "fallback"
    /\ pc' = "loop"
    /\ clips' = AfterFallback(clips)
    /\ clipSlide' = IF Len(clips') > Len(clips) THEN Append(clipSlide, i) ELSE clipSlide
    /\ UNCHANGED <<deck, outFile0, outFile, i, clip, final_clip, encoded, exc, ret, response>>
    /\ UNCHANGED <<harnessVars, rmFailed, collected, closed>>

\* lines 505-506: `if not clips`
NoValidSlidesMutNever(cs) == FALSE

NoValidSlides(cs) == cs = <<>>

\* lines 505-509
Concatenate ==
    /\ pc = "loop"
    /\ ~SlidesLeft(i, deck.slides)
    /\ IF NoValidSlides(clips)
       THEN /\ pc' = "except"
            /\ exc' = Wrap(Exc("ValueError", "No valid slides were processed"))
            /\ final_clip' = final_clip
       ELSE \E ok \in BOOLEAN :
            IF ok
            THEN /\ pc' = "write"
                 /\ final_clip' = concatenate_videoclips(clips)
                 /\ exc' = exc
            ELSE /\ pc' = "except"
                 /\ exc' = Wrap(Exc("Exception", "concatenate_videoclips failed"))
                 /\ final_clip' = final_clip
    /\ UNCHANGED <<deck, outFile0, outFile, i, clip, clips, clipSlide, encoded, ret, response>>
    /\ UNCHANGED <<harnessVars, rmFailed, collected, closed>>

\* lines 530-533: final_clip.close() and clip.close() for every clip
AfterCleanUp(cs) == [final |-> TRUE, clips |-> Len(cs)]

\* lines 511-534: the encoder runs; it returns or raises, and leaves at
\* output_path whatever it has written by then
WriteVideofile ==
    /\ pc = "write"
    /\ encoded' = encoded + 1
    /\ \E ok \in BOOLEAN, f \in FileStates \cup {outFile} :
        /\ outFile' = f
        /\ IF ok
           THEN /\ pc' = "postcheck"
                /\ exc' = exc
                /\ closed' = AfterCleanUp(clips)
           ELSE /\ pc' = "except"
                /\ exc' = Wrap(Exc("IOError", "write_videofile failed"))
                /\ closed' = closed
    /\ UNCHANGED <<deck, outFile0, i, clip, clips, clipSlide, final_clip, ret, response>>
    /\ UNCHANGED <<harnessVars, rmFailed, collected>>

\* line 569
TooSmallMutLoose(size) == size < MinVideoSize - 1

TooSmall(size) == size < MinVideoSize

\* lines 564-575
VerifyOutput ==
    /\ pc = "postcheck"
    /\ IF ~outFile.exists
       THEN /\ pc' = "except"
            /\ exc' = Exc("FileNotFoundError", "Video was not created")
            /\ ret' = ret
       ELSE IF TooSmall(outFile.size)
       THEN /\ pc' = "except"
            /\ exc' = Exc("ValueError", "Generated video is too small")
            /\ ret' = ret
       ELSE /\ pc' = "returned"
            /\ ret' = "True"
            /\ exc' = exc
    /\ UNCHANGED <<deck, outFile0, outFile, i, clip, clips, clipSlide, final_clip, encoded,
                   response>>
    /\ UNCHANGED <<harnessVars, rmFailed, collected, closed>>

\* lines 579-583: the file at output_path after the except clause; removed
\* is FALSE when os.remove raises, which the clause ignores
AfterRemoveMutKeep(f, removed) == f

AfterRemove(f, removed) == IF f.exists /\ removed THEN Absent ELSE f

\* lines 577-584
HandleFailure ==
    /\ pc = "except"
    /\ \E removed \in BOOLEAN :
        /\ outFile' = AfterRemove(outFile, removed)
        /\ rmFailed' = (outFile.exists /\ ~removed)
    /\ pc' = "raised"
    /\ ret' = "raise"
    /\ UNCHANGED <<deck, outFile0, i, clip, clips, clipSlide, final_clip, encoded, exc,
                   response>>
    /\ UNCHANGED <<harnessVars, collected, closed>>

\* routes.py lines 192-236: what the route answers
RouteResponse(r, e, f) ==
    IF r = "True"
    THEN IF f.exists
         THEN IF f.size < MinVideoSize
              THEN [status |-> 422, video_path |-> FALSE,
                    error |-> "Invalid file format or content"]
              ELSE [status |-> 200, video_path |-> TRUE, error |-> ""]
         ELSE [status |-> 500, video_path |-> FALSE, error |-> "Video conversion failed"]
    ELSE CASE e.type = "ValueError" ->
                [status |-> 422, video_path |-> FALSE,
                 error |-> "Invalid file format or content"]
           [] e.type = "RuntimeError" ->
                [status |-> 500, video_path |-> FALSE,
                 error |-> "Conversion process failed"]
           [] OTHER ->
                [status |-> 500, video_path |-> FALSE,
                 error |-> "An unexpected error occurred"]

Respond ==
    /\ pc \in {"returned", "raised"}
    /\ pc' = "done"
    /\ response' = RouteResponse(ret, exc, outFile)
    /\ UNCHANGED <<deck, outFile0, outFile, i, clip, clips, clipSlide, final_clip, encoded,
                   exc, ret>>
    /\ UNCHANGED <<harnessVars, rmFailed, collected, closed>>

Next ==
    \/ CheckImagemagick
    \/ VerifyInput
    \/ LoadPresentation
    \/ RenderSlide
    \/ ApplyTransition
    \/ Fallback
    \/ Concatenate
    \/ WriteVideofile
    \/ VerifyOutput
    \/ HandleFailure
    \/ Respond

Spec == Init /\ [][Next]_vars

----------------------------------------------------------------------------
(* apply_transition_effect on its own: one call on bounded arguments *)

FxDurations == {transition_duration \div 2, transition_duration, total_duration}

FxClips ==
    {ImageClip("solid", 0, d) : d \in FxDurations}
    \cup {CompositeVideoClip(<<Layer("white", 0, d), Layer("fill", 1, d)>>) :
            d \in FxDurations}

FxInputs ==
    [clip : FxClips, kind : TransitionKinds \cup {"none"}, fault : 0..4]

\* times at which frames are rendered: every sixth frame at 24 frames per
\* second, over the length of a slide clip
FrameTimes == {250 * k : k \in 0..9}

FxInit ==
    /\ PipelineIdle
    /\ fxIn \in FxInputs
    /\ fxOut = FxIdleOut
    /\ fxFrame = NoFrame
    /\ SlideIdle
    /\ GeomIdle
    /\ FontIdle /\ GenIdle /\ AnimIdle /\ RouteIdle

FxApply ==
    /\ ~fxOut.called
    /\ LET r == apply_transition_effect(fxIn.clip, fxIn.kind,
                                        transition_duration, fxIn.fault)
       IN  fxOut' = [called |-> TRUE, raised |-> r.raised, clip |-> r.clip]
    /\ UNCHANGED <<pipelineVars, fxIn, fxFrame, slideVars, geomVars, fontCall, genRun,
                   animRun, routeCall>>

\* the encoder asks the returned clip for its frame at time t
FxRender ==
    /\ fxOut.called
    /\ ~fxFrame.rendered
    /\ \E t \in FrameTimes :
          /\ t < fxOut.clip.duration
          /\ fxFrame' = [rendered |-> TRUE,
                         t |-> t,
                         pos |-> PositionAt(fxOut.clip, t, width,
                                            transition_duration),
                         scale |-> ScaleAt(fxOut.clip, t, transition_duration)]
    /\ UNCHANGED <<pipelineVars, fxIn, fxOut, slideVars, geomVars, fontCall, genRun,
                   animRun, routeCall>>

FxNext == FxApply \/ FxRender

FxSpec == FxInit /\ [][FxNext]_vars

----------------------------------------------------------------------------
(* create_slide_clip on its own: one call on bounded arguments *)

HarnessBgs == {"solid", "gradient"}

HarnessShapes ==
    {sh \in [fill : {"none", "solid", "solid_scheme"},
             content : {"text", "gif", "other"},
             bad : BOOLEAN] : sh.content = "other" => ~sh.bad}

\* background fills of a layout or a master
LevelBgs == {"none", "solid", "picture", "gradient"}

\* slides with shapes over a background of their own, and slides without
\* shapes over every chain of slide, layout and master backgrounds
HarnessSlides ==
    [bg : HarnessBgs, layoutBg : {"none"}, masterBg : {"none"},
     shapes : SeqsUpTo(HarnessShapes, MaxShapes)]
    \cup [bg : BgKinds, layoutBg : LevelBgs, masterBg : LevelBgs,
          shapes : {<<>>}]

SlideInit ==
    /\ PipelineIdle
    /\ slideIn \in [slide : HarnessSlides, compFault : BOOLEAN]
    /\ slideOut = SlideIdleOut
    /\ FxIdle
    /\ GeomIdle
    /\ FontIdle /\ GenIdle /\ AnimIdle /\ RouteIdle

SlideRender ==
    /\ ~slideOut.called
    /\ LET r == create_slide_clip(slideIn.slide, width, height, total_duration,
                                  slideIn.compFault)
       IN  slideOut' = [called |-> TRUE, raised |-> r.raised, clip |-> r.clip]
    /\ UNCHANGED <<pipelineVars, fxVars, slideIn, geomVars, fontCall, genRun, animRun,
                   routeCall>>

SlideNext == SlideRender

SlideSpec == SlideInit /\ [][SlideNext]_vars

----------------------------------------------------------------------------
(* the geometry of one shape, as each branch of the shape loop computes it *)

\* deck sizes: 10 x 7.5 in (4:3) and 13.33 x 7.5 in (16:9)
GeomDecks == {[w |-> 76200, h |-> 57150], [w |-> 101600, h |-> 57150]}

GeomValues ==
    [left : {-26035, 0, 25400, 26035},
     top : {0, 8255, 28575},
     width : {635, 38100, 76200},
     height : {16510, 57150}]

\* shapes with any of the geometry attributes, any of them unset, the
\* others with a value of GeomValues
GeomShapes ==
    UNION {{[attrs |-> A,
             unset |-> N,
             left |-> IF "left" \in A \ N THEN v.left ELSE 0,
             top |-> IF "top" \in A \ N THEN v.top ELSE 0,
             width |-> IF "width" \in A \ N THEN v.width ELSE 0,
             height |-> IF "height" \in A \ N THEN v.height ELSE 0] :
               N \in SUBSET A, v \in GeomValues} : A \in SUBSET GeomAttrs}

GeomInit ==
    /\ PipelineIdle
    /\ FxIdle
    /\ SlideIdle
    /\ FontIdle /\ GenIdle /\ AnimIdle /\ RouteIdle
    /\ geomIn \in [deck : GeomDecks, shape : GeomShapes]
    /\ geomOut = GeomIdleOut

\* the branches of the shape loop that raise on the shape: those that
\* convert an attribute whose value is None
GeomRaised(sh) ==
    {b \in {"fill", "gif", "picture"} : GeometryRaises(sh, GeomAttrs)}
    \cup {b \in {"text"} : GeometryRaises(sh, {"left", "top"})}

\* a filled text box, an animated and a static picture of that geometry go
\* through the shape loop
GeomRender ==
    /\ ~geomOut.called
    /\ LET sh == geomIn.shape
           W == geomIn.deck.w
           H == geomIn.deck.h
           thrown == GeomRaised(sh)
       IN  geomOut' =
             [called |-> TRUE,
              raised |-> thrown,
              fill |-> IF "fill" \in thrown THEN NoBox
                       ELSE FillGeometry(sh, W, H, width, height),
              text |-> IF "text" \in thrown THEN NoPoint
                       ELSE TextGeometry(sh, W, H, width, height),
              gif |-> IF "gif" \in thrown THEN NoBox
                      ELSE GifGeometry(sh, W, H, width, height),
              picture |-> IF "picture" \in thrown THEN NoBox
                          ELSE PictureGeometry(sh, W, H, width, height)]
    /\ UNCHANGED <<pipelineVars, fxVars, slideVars, geomIn, fontCall, genRun, animRun,
                   routeCall>>

GeomNext == GeomRender

GeomSpec == GeomInit /\ [][GeomNext]_vars

----------------------------------------------------------------------------
(* get_font_color on its own: one call on a run *)

Channels == {0, 64, 128, 255}

Runs ==
    {r \in [color : ColorKinds, rgb : Channels \X Channels \X Channels] :
        r.color # "rgb" => r.rgb = <<0, 0, 0>>}

FontInit ==
    /\ PipelineIdle
    /\ FxIdle /\ SlideIdle /\ GeomIdle /\ GenIdle /\ AnimIdle /\ RouteIdle
    /\ fontCall \in [run : Runs, called : {FALSE}, raised : {FALSE},
                      color : {Black}]

FontColor ==
    /\ ~fontCall.called
    /\ LET r == get_font_color(fontCall.run)
       IN  fontCall' = [fontCall EXCEPT !.called = TRUE,
                                        !.raised = r.raised,
                                        !.color = r.color]
    /\ UNCHANGED <<pipelineVars, fxVars, slideVars, geomVars, genRun, animRun,
                   routeCall>>

FontNext == FontColor

FontSpec == FontInit /\ [][FontNext]_vars

----------------------------------------------------------------------------
(* create_presentation: the animation pictures of one content slide *)

GenInit ==
    /\ PipelineIdle
    /\ FxIdle /\ SlideIdle /\ GeomIdle /\ FontIdle /\ AnimIdle /\ RouteIdle
    /\ genRun \in [pc : {"provided"},
                    provided : AnimationFiles \cup {NoAnimation},
                    pictures : {<<>>},
                    raised : {FALSE}]

\* lines 294-302
AddProvidedPicture ==
    /\ genRun.pc = "provided"
    /\ LET r == AddProvided(genRun.pictures, genRun.provided)
       IN  genRun' = [genRun EXCEPT
                        !.pc = IF r.raised THEN "raised" ELSE "generate",
                        !.raised = r.raised,
                        !.pictures = r.pictures]
    /\ UNCHANGED <<pipelineVars, fxVars, slideVars, geomVars, fontCall, animRun,
                   routeCall>>

\* lines 383-405: generate_slide_animation returns the path of a file it
\* found on disk, or raises
AddGeneratedPicture ==
    /\ genRun.pc = "generate"
    /\ \/ \E file \in AnimationFiles :
             genRun' = [genRun EXCEPT
                          !.pc = "text",
                          !.pictures = AddGenerated(genRun.pictures, file)]
       \/ genRun' = [genRun EXCEPT !.pc = "raised", !.raised = TRUE]
    /\ UNCHANGED <<pipelineVars, fxVars, slideVars, geomVars, fontCall, animRun,
                   routeCall>>

GenNext == AddProvidedPicture \/ AddGeneratedPicture

GenSpec == GenInit /\ [][GenNext]_vars

----------------------------------------------------------------------------
(* create_animations_for_content *)

MaxSections == 3

\* content.split('\n\n'): for each section, whether it holds text
SectionLists == UNION {[1..n -> BOOLEAN] : n \in 1..MaxSections}

AnimInit ==
    /\ PipelineIdle
    /\ FxIdle /\ SlideIdle /\ GeomIdle /\ FontIdle /\ GenIdle /\ RouteIdle
    /\ animRun \in [pc : {"start"}, sections : SectionLists, k : {0},
                     animations : {<<>>}, temp_files : {<<>>}, disk : {{}},
                     failed : {FALSE}, ret : {<<>>}]

\* animation_generator.py line 159: os.makedirs
AnimMakeDirs ==
    /\ animRun.pc = "start"
    /\ \E ok \in BOOLEAN :
          animRun' = [animRun EXCEPT
                        !.pc = IF ok THEN "loop" ELSE "except",
                        !.failed = ~ok]
    /\ UNCHANGED <<pipelineVars, fxVars, slideVars, geomVars, fontCall, genRun,
                   routeCall>>

\* lines 161-170: one section.  generate_slide_animation (lines 28-124)
\* returns the path of the file it made, or raises; the code it executes
\* may have written the file before the exception (written).  The file of
\* section k is named k.
AnimSection ==
    /\ animRun.pc = "loop"
    /\ animRun.k < Len(animRun.sections)
    /\ LET k == animRun.k + 1
       IN  IF ~animRun.sections[k]
           THEN animRun' = [animRun EXCEPT !.k = k]
           ELSE \/ animRun' = [animRun EXCEPT
                                 !.k = k,
                                 !.disk = @ \cup {k},
                                 !.animations = Append(@, k),
                                 !.temp_files = Append(@, k)]
                \/ \E written \in BOOLEAN :
                      animRun' = [animRun EXCEPT
                                    !.k = k,
                                    !.pc = "except",
                                    !.failed = TRUE,
                                    !.disk = IF written THEN @ \cup {k} ELSE @]
    /\ UNCHANGED <<pipelineVars, fxVars, slideVars, geomVars, fontCall, genRun,
                   routeCall>>

\* line 172
AnimReturn ==
    /\ animRun.pc = "loop"
    /\ animRun.k = Len(animRun.sections)
    /\ animRun' = [animRun EXCEPT !.pc = "done", !.ret = animRun.animations]
    /\ UNCHANGED <<pipelineVars, fxVars, slideVars, geomVars, fontCall, genRun,
                   routeCall>>

\* lines 177-184: the files of temp_files that are removed; an os.remove
\* that raises is logged
Removed(disk, temp_files, stuck) ==
    {f \in disk : \E n \in 1..Len(temp_files) : temp_files[n] = f /\ f \notin stuck}

\* lines 174-185: the except clause
AnimCleanUp ==
    /\ animRun.pc = "except"
    /\ \E stuck \in SUBSET {animRun.temp_files[n] : n \in 1..Len(animRun.temp_files)} :
          animRun' = [animRun EXCEPT
                        !.pc = "done",
                        !.disk = @ \ Removed(@, animRun.temp_files, stuck),
                        !.ret = <<>>]
    /\ UNCHANGED <<pipelineVars, fxVars, slideVars, geomVars, fontCall, genRun,
                   routeCall>>

AnimNext == AnimMakeDirs \/ AnimSection \/ AnimReturn \/ AnimCleanUp

AnimSpec == AnimInit /\ [][AnimNext]_vars

----------------------------------------------------------------------------
(* the /convert-video route up to the call of convert_to_video *)

\* A path is a sequence of names, a name a sequence of characters: the path
\* /u/f is << <<"u">>, <<"f">> >>.  The upload folder is /u; /uo is another
\* directory beside it, /e one elsewhere.
MaxPathLen == 3

DotDot == <<".", ".">>

Names == {<<"u">>, <<"u", "o">>, <<"e">>, <<"f">>, DotDot}

UPLOAD_FOLDER == << <<"u">> >>

\* the request paths; the empty one stands for a request without pptx_path
RequestPaths == SeqsUpTo(Names, MaxPathLen)

\* os.path.abspath of an absolute path: a ".." takes the name before it away
RECURSIVE AbsPathFrom(_, _)
AbsPathFrom(done, rest) ==
    IF rest = <<>> THEN done
    ELSE IF Head(rest) = DotDot
         THEN AbsPathFrom(IF done = <<>> THEN <<>>
                          ELSE SubSeq(done, 1, Len(done) - 1), Tail(rest))
         ELSE AbsPathFrom(Append(done, Head(rest)), Tail(rest))

abspath(p) == AbsPathFrom(<<>>, p)

\* the characters of a path, a "/" before every name
RECURSIVE PathString(_)
PathString(p) ==
    IF p = <<>> THEN <<>>
    ELSE <<"/">> \o Head(p) \o PathString(Tail(p))

\* str.startswith
startswith(str, prefix) ==
    /\ Len(prefix) <= Len(str)
    /\ SubSeq(str, 1, Len(prefix)) = prefix

\* routes.py lines 174-175: the test that lets a path through
IsAllowed(p) == startswith(PathString(p), PathString(UPLOAD_FOLDER))

\* routes.py lines 159-189: the answer the route gives before it converts,
\* status 0 when it goes on to convert_to_video
Validate(req) ==
    IF ~req.json
    THEN [status |-> 400, error |-> "Content-Type must be application/json"]
    ELSE IF req.path = <<>>
    THEN [status |-> 400, error |-> "No PPTX path provided"]
    ELSE IF ~req.exists
    THEN [status |-> 404, error |-> "PPTX file not found"]
    ELSE IF ~IsAllowed(abspath(req.path))
    THEN [status |-> 403, error |-> "Invalid file path"]
    ELSE IF req.large
    THEN [status |-> 413, error |-> "File too large"]
    ELSE [status |-> 0, error |-> ""]

\* a request: whether it is JSON, its pptx_path, whether a file is at the
\* absolute path and whether that file exceeds MAX_CONTENT_LENGTH
Requests ==
    {q \in [json : BOOLEAN, path : RequestPaths, exists : BOOLEAN,
            large : BOOLEAN] :
        /\ q.large => q.exists
        /\ q.path = <<>> => ~q.exists}

RouteInit ==
    /\ PipelineIdle
    /\ FxIdle /\ SlideIdle /\ GeomIdle /\ FontIdle /\ GenIdle /\ AnimIdle
    /\ \E q \in Requests :
          routeCall = [pc |-> "request", json |-> q.json, path |-> q.path,
                       exists |-> q.exists, large |-> q.large, status |-> 0,
                       error |-> "", converted |-> FALSE]

\* routes.py lines 158-236: the handler; the outcome of convert_to_video is
\* any of those of the pipeline
RouteConvert ==
    /\ routeCall.pc = "request"
    /\ LET v == Validate(routeCall)
       IN  IF v.status # 0
           THEN routeCall' = [routeCall EXCEPT !.pc = "done",
                                               !.status = v.status,
                                               !.error = v.error]
           ELSE \E r \in {"True", "raise"}, f \in FileStates,
                   t \in {"ValueError", "RuntimeError", "FileNotFoundError"} :
                   LET a == RouteResponse(r, Exc(t, ""), f)
                   IN  routeCall' = [routeCall EXCEPT !.pc = "done",
                                                       !.status = a.status,
                                                       !.error = a.error,
                                                       !.converted = TRUE]
    /\ UNCHANGED <<pipelineVars, fxVars, slideVars, geomVars, fontCall, genRun,
                   animRun>>

RouteNext == RouteConvert

RouteSpec == RouteInit /\ [][RouteNext]_vars

----------------------------------------------------------------------------
(* Properties *)

Returned == pc \in {"returned", "raised", "done"}

Failed == Returned /\ ret = "raise"

\* the run got past the pre-checks and the deck loaded
InsidePipeline ==
    /\ exc.msg # "ImageMagick is not properly configured"
    /\ exc.msg # "Invalid PPTX file format"
    /\ deck.parsable
    /\ pc \notin {"start", "verify", "load"}

\* C1 as stated: convert_to_video returns True, and the route hands out a
\* video path, only for an existing output file of MORE than 1000 bytes.
C1_SuccessOnlyAboveMinSize ==
    /\ ret = "True" => outFile.exists /\ outFile.size > 1000
    /\ response.video_path => outFile.exists /\ outFile.size > 1000

\* C1 amended: convert_to_video returns True, and the route hands out a video
\* path, only for an existing output file of at least 1000 bytes; a smaller
\* or missing output is reported as a failure although the encoder returned.
C1_SuccessOnlyAtLeastMinSize ==
    /\ ret = "True" => outFile.exists /\ outFile.size >= 1000
    /\ response.video_path => ret = "True" /\ outFile.exists /\ outFile.size >= 1000
    /\ Returned /\ (~outFile.exists \/ outFile.size < 1000) => ret = "raise"
    /\ pc = "done" /\ ret = "raise" => response.status \in {422, 500}

C1_Witness ==
    /\ pc = "done"
    /\ ret = "True"
    /\ response.video_path
    /\ outFile = File(1000)

C3_SlideFailureFallsBack ==
    /\ \A k \in 1..Len(clips) :
          (k <= Len(deck.slides) /\ deck.slides[k].bg = "gradient")
             => clips[k] = [layers |-> <<[part |-> "white", shape |-> 0,
                                          duration |-> 500]>>,
                            duration |-> 500, fx |-> <<>>]
    /\ pc = "fallback" => exc = NoExc /\ ret = "pending"
    /\ pc = "loop" => Len(clips) = i
    /\ (InsidePipeline /\ pc \notin {"loop", "transition", "fallback"})
          => i = Len(deck.slides) /\ Len(clips) = Len(deck.slides)

\* a fallback clip followed by the rendered clip of a later slide, encoded
C3_Witness ==
    /\ pc = "returned"
    /\ \E k \in 1..(Len(clips) - 1) :
          /\ deck.slides[k].bg = "gradient"
          /\ clips[k].duration = 500
          /\ Len(clips[k + 1].layers) > 1

\* the clips slide n of the deck can yield: the fallback clip when
\* create_slide_clip raises, else its clip, wrapped by the transition of n
\* or left as it is when applying the transition raised
Segments(slide, n) ==
    UNION {LET r == create_slide_clip(slide, width, height, total_duration, cf)
           IN  IF r.raised THEN {FallbackClip}
               ELSE {apply_transition_effect(r.clip, TransitionOf(n),
                                             transition_duration, f).clip :
                        f \in {0, 1}} :
           cf \in BOOLEAN}

\* C4: when the run reaches encoding on a deck of N >= 1 slides, the clips
\* handed to concatenation are exactly N, the k-th was appended while slide k
\* was being processed and is a segment of slide k.
C4_ClipsFollowDeckOrder ==
    /\ (pc \in {"write", "postcheck", "returned"} \/ encoded > 0)
          => /\ Len(deck.slides) >= 1
             /\ final_clip.clips = clips
             /\ Len(clips) = Len(deck.slides)
             /\ clipSlide = [k \in 1..Len(deck.slides) |-> k]
    /\ pc = "write"
          => \A k \in 1..Len(final_clip.clips) :
                final_clip.clips[k] \in Segments(deck.slides[k], k)

\* three different slides, the middle one fallen back, reach the encoder
C4_Witness ==
    /\ pc = "write"
    /\ Len(clips) >= 3
    /\ deck.slides[1] = MixedSlide
    /\ deck.slides[2] = GradientSlide
    /\ deck.slides[3] = PlainSlide
    /\ clips[1].fx = <<"slide_left">>

\* C5 as stated: every segment of the timeline lasts 2500 ms and a deck of N
\* slides yields a timeline of N x 2500 ms.
C5_EverySegmentLastsTotalDuration ==
    final_clip # NoFinal
       => /\ \A k \in 1..Len(final_clip.clips) :
                final_clip.clips[k].duration = 2500
          /\ final_clip.duration = Len(deck.slides) * 2500

\* the 1-based period-4 cycle of C6, written out
ExpectedFx(n) ==
    CASE n % 4 = 1 -> <<"slide_left">>
      [] n % 4 = 2 -> <<"slide_right">>
      [] n % 4 = 3 -> <<"zoom">>
      [] n % 4 = 0 -> <<"fadein", "fadeout">>

\* C6: the effect wrapped around the clip of slide n is the one of
\* transitions[n mod 4] (1 slide_left, 2 slide_right, 3 zoom, 4 fade, ...),
\* whatever the slide holds and whatever happened to the slides before it; a
\* clip carries no effect only when applying it raised or the slide fell back.
C6_TransitionCycle ==
    /\ \A k \in 1..Len(clips) : clips[k].fx \in {<<>>, ExpectedFx(k)}
    /\ (pc = "loop" /\ i >= 1 /\ clips[i].fx # <<>>)
          => /\ clips[i].fx = ExpectedFx(i)
             /\ Len(clips[i].layers) >= 1

\* four slides, each wrapped by its own kind
C6_Witness ==
    /\ pc = "loop"
    /\ Len(clips) = 4
    /\ clips[1].fx = <<"slide_left">>
    /\ clips[2].fx = <<"slide_right">>
    /\ clips[3].fx = <<"zoom">>
    /\ clips[4].fx = <<"fadein", "fadeout">>

\* C7: on a deck without slides the run raises 'No valid slides were
\* processed' before concatenation and encoding, convert_to_video raises to
\* its caller, and the run writes no output file.
C7_EmptyDeckFails ==
    (deck.parsable /\ deck.slides = <<>>)
       => /\ pc \notin {"write", "postcheck", "returned"}
          /\ encoded = 0
          /\ final_clip = NoFinal
          /\ ret # "True"
          /\ ~response.video_path
          /\ outFile \in {outFile0, Absent}
          /\ (InsidePipeline /\ pc \notin {"loop"})
                => /\ exc.type = "RuntimeError"
                   /\ exc.cause = "No valid slides were processed"
          /\ (InsidePipeline /\ pc \in {"raised", "done"}) => ret = "raise"

C7_Witness ==
    /\ deck.parsable
    /\ deck.slides = <<>>
    /\ pc = "done"
    /\ exc.cause = "No valid slides were processed"
    /\ response.status = 500

\* the shape of slideIn at position k raises while it is processed
ShapeFails(k) ==
    LET sh == slideIn.slide.shapes[k]
    IN  sh.fill = "solid_scheme" \/ (sh.content # "other" /\ sh.bad)

\* the layers a shape that raises nowhere gives: its fill, then its content
RECURSIVE LayersOfSound(_, _)
LayersOfSound(shapes, k) ==
    IF k > Len(shapes) THEN <<>>
    ELSE LET sh == shapes[k]
             fill == IF sh.fill = "solid"
                     THEN <<[part |-> "fill", shape |-> k, duration |-> 2500]>>
                     ELSE <<>>
             content == IF sh.content # "other"
                        THEN <<[part |-> sh.content, shape |-> k, duration |-> 2500]>>
                        ELSE <<>>
         IN  (IF sh.fill = "solid_scheme" \/ (sh.content # "other" /\ sh.bad)
              THEN <<>> ELSE fill \o content)
             \o LayersOfSound(shapes, k + 1)

FxThrown == fxIn.fault \in 1..TransitionCalls(fxIn.kind)

\* C9: apply_transition_effect never raises, and when applying the effect
\* raises it returns the clip it was given, unchanged.
C9_TransitionNeverRaises ==
    fxOut.called
       => /\ ~fxOut.raised
          /\ FxThrown => fxOut.clip = fxIn.clip

\* the second call of the fade branch raises
C9_Witness ==
    /\ fxOut.called
    /\ fxIn.kind = "fade"
    /\ fxIn.fault = 2
    /\ fxOut.clip = fxIn.clip

\* C10: for each of the four kinds the clip returned lasts as long as the
\* clip given.
C10_TransitionKeepsDuration ==
    (fxOut.called /\ fxIn.kind \in {"fade", "slide_left", "slide_right", "zoom"})
       => fxOut.clip.duration = fxIn.clip.duration

\* a slide-in applied without fault to a clip shorter than the transition
C10_Witness ==
    /\ fxOut.called
    /\ fxIn.kind = "slide_left"
    /\ ~FxThrown
    /\ fxIn.clip.duration < 500
    /\ fxOut.clip.fx = <<"slide_left">>
    /\ Len(fxOut.clip.layers) = Len(fxIn.clip.layers) + 1

\* C11 as stated: after every slide that has been processed, rendered or
\* fallen back, gc.collect has run before the next slide starts or encoding
\* begins.
C11_GcAfterEverySlide ==
    /\ pc = "loop" => collected = 1..i
    /\ pc \in {"write", "postcheck", "returned"} => collected = 1..Len(deck.slides)

\* C12 as stated: a file that is at the output path when the run starts is
\* neither overwritten nor deleted by the run.
C12_PreexistingFileUntouched ==
    outFile0.exists => outFile = outFile0 /\ encoded = 0

\* C13: when the deck cannot be parsed the run fails at loading: no slide is
\* rendered, the encoder is never invoked, the run writes no output file, and
\* the load error reaches the caller of convert_to_video.
C13_UnparsableDeckFails ==
    ~deck.parsable
       => /\ pc \notin {"loop", "transition", "fallback", "write", "postcheck",
                        "returned"}
          /\ i = 0
          /\ clips = <<>>
          /\ final_clip = NoFinal
          /\ encoded = 0
          /\ ret # "True"
          /\ ~response.video_path
          /\ outFile \in {outFile0, Absent}
          /\ (pc \in {"except", "raised", "done"}
              /\ exc.msg = "Failed to convert PPTX to video")
                => exc.type = "RuntimeError" /\ exc.cause = "Package not found"
          /\ pc \in {"raised", "done"} => ret = "raise"

C13_Witness ==
    /\ ~deck.parsable
    /\ pc = "done"
    /\ exc.cause = "Package not found"
    /\ ret = "raise"
    /\ response.status = 500

\* C15: the run moves INIT -> LOADED -> slides -> ENCODING -> DONE | FAILED:
\* slide i+1 is started only when slides 1..i each have their clip (rendered
\* or fallback), encoding starts only when every slide of the deck has one,
\* and success is returned only from the post-condition check after encoding.
C15_RunOrder ==
    [][ /\ pc' = "verify" => pc = "start"
        /\ pc' = "load" => pc = "verify"
        /\ pc' = "loop" => /\ pc \in {"load", "transition", "fallback"}
                           /\ Len(clips') = i'
        /\ pc' = "transition" => /\ pc = "loop"
                                 /\ i' = i + 1
                                 /\ Len(clips) = i
        /\ pc' = "fallback" => /\ pc \in {"loop", "transition"}
                               /\ Len(clips') = i' - 1
        /\ pc' = "write" => /\ pc = "loop"
                            /\ i = Len(deck.slides)
                            /\ Len(clips) = Len(deck.slides)
        /\ pc' = "postcheck" => pc = "write" /\ encoded' = 1
        /\ pc' = "returned" => pc = "postcheck" /\ ret' = "True"
        /\ pc' = "except" => pc \in {"start", "verify", "load", "loop", "write",
                                     "postcheck"}
        /\ pc' = "raised" => pc = "except"
        /\ pc' = "done" => pc \in {"returned", "raised"}
        /\ i' \in {0, i, i + 1}
        /\ deck' = deck
      ]_vars

\* a run that renders, falls back, renders, encodes and returns
C15_Witness ==
    /\ pc = "returned"
    /\ Len(clips) = 3
    /\ deck.slides[2] = GradientSlide
    /\ deck.slides[3] = MixedSlide
    /\ i = 3

\* C16 as stated: when the run ends, on a failed encoding as on a success,
\* every clip the run created (each clip of `clips`, and final_clip) has
\* been closed.
C16_ClipsReleased ==
    Returned => /\ closed.clips = Len(clips)
                /\ final_clip # NoFinal => closed.final

\* the level whose background the lookup slide -> layout -> master is to
\* find: the first one that has a background set
FirstSet(slide) ==
    IF slide.bg # "none" THEN slide.bg
    ELSE IF slide.layoutBg # "none" THEN slide.layoutBg
    ELSE slide.masterBg

\* C17: the background of a slide clip is the one of the first level among
\* slide, layout and master that has a background set, and white when none
\* has.  Violated: a slide without a background of its own gets a white
\* background whatever its layout and master declare.
C17_FirstBackgroundSetWins ==
    (slideOut.called /\ ~slideOut.raised)
       => slideOut.clip.layers[1].part = FillImage(FirstSet(slideIn.slide))

\* C18: after a slide_left or slide_right transition the slide content
\* stands at its native position, offset (0, 0), in every frame from the end
\* of the transition window on.  Violated: the offset is 0 inside the window
\* and grows with t after it.
C18_ContentRestsAfterWindow ==
    (/\ fxFrame.rendered
     /\ fxIn.kind \in {"slide_left", "slide_right"}
     /\ fxFrame.t >= transition_duration)
       => fxFrame.pos = <<0, 0>>

\* C19: after a zoom transition that went through, the scale of the slide
\* content at time t of the transition window is 1 + 0.1 * t /
\* transition_duration, 100% at t = 0, and it exceeds 110% in no frame of
\* the clip.  Violated: the scale goes on growing after the window.
C19_ZoomStaysWithinTenPercent ==
    (fxFrame.rendered /\ fxIn.kind = "zoom" /\ ~FxThrown)
       => /\ fxFrame.t <= transition_duration
                => fxFrame.scale * transition_duration
                      = 1000 * transition_duration + 100 * fxFrame.t
          /\ fxFrame.t = 0 => fxFrame.scale = 1000
          /\ fxFrame.scale <= 1100

\* every attribute of the shape of geomIn is there
GeomComplete == geomIn.shape.attrs = GeomAttrs /\ geomIn.shape.unset = {}

\* px is native / total * out cut to an integer toward zero, within the
\* rounding of the division
Scaled(px, native, total, out) ==
    IF native >= 0
    THEN px * total <= native * out /\ native * out <= (px + 1) * total
    ELSE px * total >= native * out /\ native * out >= (px - 1) * total

\* C20: a shape that has all four attributes gets the same pixel geometry in
\* the solid fill, text, static picture and animated picture branches: left
\* and width scaled by 1920 over the deck width, top and height by 1080 over
\* the deck height, cut to integers (the text branch places the text at the
\* same x and y and computes no size).
C20_SameScalingInEveryBranch ==
    (geomOut.called /\ GeomComplete)
       => /\ Scaled(geomOut.fill.x, geomIn.shape.left, geomIn.deck.w, 1920)
          /\ Scaled(geomOut.fill.w, geomIn.shape.width, geomIn.deck.w, 1920)
          /\ Scaled(geomOut.fill.y, geomIn.shape.top, geomIn.deck.h, 1080)
          /\ Scaled(geomOut.fill.h, geomIn.shape.height, geomIn.deck.h, 1080)
          /\ geomOut.gif = geomOut.fill
          /\ geomOut.picture = geomOut.fill
          /\ geomOut.text = [x |-> geomOut.fill.x, y |-> geomOut.fill.y]

C20_Witness ==
    /\ geomOut.called
    /\ geomIn.deck = [w |-> 101600, h |-> 57150]
    /\ GeomComplete
    /\ geomIn.shape.left = 25400
    /\ geomIn.shape.top = 28575
    /\ geomIn.shape.width = 76200
    /\ geomIn.shape.height = 57150
    /\ geomOut.picture = [x |-> 480, y |-> 540, w |-> 1440, h |-> 1080]
    /\ geomOut.gif = geomOut.picture
    /\ geomOut.text = [x |-> 480, y |-> 540]

\* the value a geometry attribute of the shape of geomIn is to be given: its
\* own where it has one, the default where it is missing
GeomMissing(a) == a \notin geomIn.shape.attrs \/ a \in geomIn.shape.unset

\* the pixel geometry of a shape whose missing position is 0 and whose
\* missing size is half the frame
DefaultedBox(box) ==
    /\ GeomMissing("left") => box.x = 0
    /\ GeomMissing("top") => box.y = 0
    /\ GeomMissing("width") => box.w = width \div 2
    /\ GeomMissing("height") => box.h = height \div 2

\* C23: a shape that lacks some of its geometry goes through every branch
\* without an exception, and each branch takes 0 for a missing position and
\* half the frame, 960 x 540 pixels, for a missing size.  Violated: the solid
\* fill branch gives a missing size 0 pixels, and an attribute that is there
\* but None makes the branch raise.
C23_SameDefaultsInEveryBranch ==
    (geomOut.called /\ ~GeomComplete)
       => /\ geomOut.raised = {}
          /\ DefaultedBox(geomOut.fill)
          /\ DefaultedBox(geomOut.gif)
          /\ DefaultedBox(geomOut.picture)
          /\ GeomMissing("left") => geomOut.text.x = 0
          /\ GeomMissing("top") => geomOut.text.y = 0

\* C21: a slide whose background fill is a gradient is rendered: the call
\* returns a clip of the requested duration whose bottom layer is the
\* gradient image, the layers of the sound shapes above it.  Violated: the
\* call raises.
C21_GradientBackgroundRendered ==
    (slideOut.called /\ slideIn.slide.bg = "gradient")
       => /\ ~slideOut.raised
          /\ slideOut.clip.duration = total_duration
          /\ slideOut.clip.layers # <<>>
          /\ slideOut.clip.layers[1].part = "gradient"

\* C22: a slide whose background fill is a pattern gets the checkerboard
\* image as its background.  Violated: it gets the white image.
C22_PatternBackgroundTiled ==
    (slideOut.called /\ slideIn.slide.bg = "pattern")
       => /\ ~slideOut.raised
          /\ slideOut.clip.layers[1].part = create_pattern_background

\* C24: in the clip of a slide the background is the bottom layer, the
\* layers of a shape lie below those of every later shape, a shape's fill
\* lies below its text or picture, and an animated picture stands in that
\* same order.
C24_LayersInShapeOrder ==
    (slideOut.called /\ ~slideOut.raised)
       => LET ls == slideOut.clip.layers
          IN  /\ ls # <<>>
              /\ ls[1].shape = 0
              /\ ls[1].part \in {"white", "solid", "picture"}
              /\ \A a, b \in 1..Len(ls) :
                    a < b => /\ ls[b].shape >= 1
                             /\ ls[a].shape <= ls[b].shape
                             /\ ls[a].shape = ls[b].shape
                                   => ls[a].part = "fill" /\ ls[b].part # "fill"

\* a filled text box, a filled animated picture and a text box above one
\* another
C24_Witness ==
    /\ slideOut.called
    /\ ~slideOut.raised
    /\ Len(slideIn.slide.shapes) = 3
    /\ LET ls == slideOut.clip.layers
       IN  /\ Len(ls) = 6
           /\ ls[2].part = "fill" /\ ls[2].shape = 1
           /\ ls[3].part = "text" /\ ls[3].shape = 1
           /\ ls[4].part = "fill" /\ ls[4].shape = 2
           /\ ls[5].part = "gif" /\ ls[5].shape = 2
           /\ ls[6].part = "text" /\ ls[6].shape = 3

\* C27: create_slide_clip raises on no slide: it returns a clip of the
\* requested duration that holds the background at least.  Violated: on a
\* failure before the background clip exists the except clause raises.
C27_SlideClipNeverRaises ==
    slideOut.called
       => /\ ~slideOut.raised
          /\ slideOut.clip # NoClip
          /\ slideOut.clip.duration = total_duration

\* C28: a shape that raises while it is processed leaves no layer in the
\* slide's clip.  Violated: the fill layer appended before the text or
\* picture of the shape raised stays.
C28_SkippedShapeLeavesNoLayer ==
    (slideOut.called /\ ~slideOut.raised)
       => \A n \in 1..Len(slideOut.clip.layers) :
             LET l == slideOut.clip.layers[n]
             IN  l.shape >= 1 => ~ShapeFails(l.shape)

\* C25: get_font_color does not raise; for a run with an explicit RGB colour
\* it returns that colour with alpha 255, for a run without colour or with a
\* theme colour opaque black.  Violated: it returns black for every run.
C25_OwnColorOrBlack ==
    fontCall.called
       => /\ ~fontCall.raised
          /\ fontCall.run.color = "rgb"
                => fontCall.color = fontCall.run.rgb \o <<255>>
          /\ fontCall.run.color \in {"none", "theme"} => fontCall.color = Black

\* C26: every picture create_presentation adds to a slide as the animation
\* of a section is a file that starts with GIF8 and has at least 100 bytes.
\* Violated: both places that add the picture pass the file to add_picture
\* unchecked.
C26_OnlyCheckedAnimationsAdded ==
    \A n \in 1..Len(genRun.pictures) :
       add_animation_to_slide(genRun.pictures[n])

\* C29: a call of create_animations_for_content that failed returns the
\* empty list and leaves none of the files made during the call on disk.
\* Violated: the file of the failing section is in no list, and a file
\* whose removal raises stays.
C29_NoFileAfterFailedAnimations ==
    (animRun.pc = "done" /\ animRun.failed)
       => /\ animRun.ret = <<>>
          /\ animRun.disk = {}

\* the absolute path lies in the directory UPLOAD_FOLDER
InUploadFolder(p) ==
    /\ Len(p) > Len(UPLOAD_FOLDER)
    /\ SubSeq(p, 1, Len(UPLOAD_FOLDER)) = UPLOAD_FOLDER

\* C30: a request whose pptx_path resolves outside the upload folder is
\* answered 403 'Invalid file path' whether or not a file is there, and
\* convert_to_video is called only on paths inside the upload folder.
\* Violated: a path without a file is answered 404 before the folder test,
\* and a path in a directory whose name begins like the upload folder's
\* passes the test.
C30_OutsidePathsAllAlike ==
    (routeCall.pc = "done" /\ routeCall.json /\ routeCall.path # <<>>)
       => /\ ~InUploadFolder(abspath(routeCall.path))
                => /\ routeCall.status = 403
                   /\ routeCall.error = "Invalid file path"
          /\ routeCall.converted => InUploadFolder(abspath(routeCall.path))

====
